---- MODULE Spec2Model ----
(***************************************************************************)
(* Model of the two scripts of the repository:                             *)
(*   html_to_pdf_converter.py  (probe, menu, dispatch, template emission)  *)
(*   open_guide.py             (open the study guide in the browser)       *)
(* One run of a script is a sequence of steps; each step is one blocking   *)
(* call (subprocess, import, input(), webbrowser.open, file write) with    *)
(* the code around it.  The environment chooses the outcome of each call.  *)
(***************************************************************************)
EXTENDS Integers, Sequences, FiniteSets, TLC

\* ---- bounds ------------------------------------------------------------
MaxLen == 3
MaxRuns == 2

\* ---- input alphabet ----------------------------------------------------
Digits == {"0", "1", "2", "3", "4"}
Chars == Digits \cup {" ", "-", "x"}
MenuLines == UNION {[1..n -> Chars] : n \in 0..MaxLen}
YnLines == { <<"y">>, <<"Y">>, <<"y","e","s">>, <<"Y","E","S">>,
             <<"n">>, <<>>, <<" ","y">> }

\* ---- printed messages --------------------------------------------------
MsgBanner == "=== Hebrew Mathematical Text Converter ==="
MsgNotFound == "Error: math_study_guide.html not found!"
MsgWkOk == "wkhtmltopdf is available"
MsgWkMissing == "wkhtmltopdf not found"
MsgWeasyOk == "WeasyPrint is available"
MsgWeasyMissing == "WeasyPrint not found"
MsgNoTools == "No PDF conversion tools available."
MsgInstall == "=== Installation Instructions ==="
MsgAlternative == "Alternative: Open math_study_guide.html in your browser and print to PDF."
MsgMenuHeader == "Available conversion options:"
MsgInvalidChoice == "Invalid choice!"
MsgInvalidInput == "Invalid input! Please enter a number."
MsgCancelled == "Operation cancelled."
MsgConverted == "Successfully created math_study_guide.pdf"
MsgConverting == "Converting math_study_guide.html to PDF..."
MsgConvertStderr == "Error: <stderr of wkhtmltopdf>"
MsgConvertError == "Error during conversion"
MsgWeasyWarning == "Warning: WeasyPrint doesn't support JavaScript/MathJax."
MsgOpened == "Opened math_study_guide.html in browser"
MsgBrowserError == "Error opening browser"
MsgLatexCreated == "Created basic LaTeX template: math_guide.tex"
MsgGuideOpening == "Opening Hebrew Mathematical Study Guide..."
MsgGuideOpened == "Study guide opened in your default browser!"

\* ---- the template file -------------------------------------------------
latex_content == "latex_content"
OldContent == "previous content"
NoFile == [exists |-> FALSE, content |-> <<>>]
LatexFile == [exists |-> TRUE, content |-> <<latex_content>>]

VARIABLES
    script,      \* which script this run executes
    run,         \* number of the current run
    pc,          \* position of the run
    htmlExists,  \* os.path.exists("math_study_guide.html")
    available,   \* check_dependencies: the dict `available`
    options,     \* main: the list `options` of (method, description)
    menu,        \* the numbered lines printed by the enumerate loop
    promptKind,  \* which input() was read in this run: none / yn / menu
    line,        \* the line input() returned
    inputSignal, \* the exception input() raised instead, or "none"
    prompts,     \* number of input() calls of this run
    out,         \* lines printed in this run
    calls,       \* external calls made in this run, in order
    uncaught,    \* exception that left main, or "none"
    exitCode,    \* open_guide: value returned by main (-1 = not returned)
    browserResult, \* what webbrowser.open did in this run ("none" = not called)
    texFile,     \* math_guide.tex on disk
    texAtStart   \* math_guide.tex when the run started

vars == <<script, run, pc, htmlExists, available, options, menu, promptKind,
          line, inputSignal, prompts, out, calls, uncaught, exitCode, browserResult,
          texFile, texAtStart>>

\* ---- python helpers ----------------------------------------------------
EmptyDict == [k \in {} |-> FALSE]

DictSet(d, k, v) == [x \in (DOMAIN d) \cup {k} |-> IF x = k THEN v ELSE d[x]]

DictGet(d, k) == IF k \in DOMAIN d THEN d[k] ELSE FALSE

AnyValue(d) == \E k \in DOMAIN d : d[k]

RECURSIVE LStrip(_)
LStrip(s) == IF s # <<>> /\ Head(s) = " " THEN LStrip(Tail(s)) ELSE s

RECURSIVE RStrip(_)
RStrip(s) == IF s # <<>> /\ s[Len(s)] = " "
             THEN RStrip(SubSeq(s, 1, Len(s) - 1)) ELSE s

Strip(s) == RStrip(LStrip(s))

DigitVal(c) == CASE c = "0" -> 0 [] c = "1" -> 1 [] c = "2" -> 2
                 [] c = "3" -> 3 [] c = "4" -> 4 [] OTHER -> 0

RECURSIVE DigitsVal(_)
DigitsVal(s) == IF s = <<>> THEN 0
                ELSE 10 * DigitsVal(SubSeq(s, 1, Len(s) - 1)) + DigitVal(s[Len(s)])

AllDigits(s) == s # <<>> /\ \A i \in 1..Len(s) : s[i] \in Digits

\* int(text): surrounding whitespace is dropped, one optional sign, then
\* one or more digits; anything else is a ValueError.
ParseInt(text) ==
    LET s == Strip(text)
        signed == s # <<>> /\ Head(s) \in {"-"}
        body == IF signed THEN Tail(s) ELSE s
    IN  IF AllDigits(body)
        THEN [ok |-> TRUE,
              val |-> IF signed THEN 0 - DigitsVal(body) ELSE DigitsVal(body)]
        ELSE [ok |-> FALSE, val |-> 0]

LowerChar(c) == CASE c = "Y" -> "y" [] c = "E" -> "e" [] c = "S" -> "s"
                  [] OTHER -> c

Lower(s) == [i \in 1..Len(s) |-> LowerChar(s[i])]

\* seq[i] of a python list, i zero-based, negative indexes count from the end
PyIndex(s, i) ==
    IF 0 <= i /\ i < Len(s) THEN [ok |-> TRUE, val |-> s[i + 1]]
    ELSE IF i < 0 /\ 0 - i <= Len(s) THEN [ok |-> TRUE, val |-> s[Len(s) + i + 1]]
    ELSE [ok |-> FALSE, val |-> <<"", "">>]

\* ---- outcomes the environment can give each blocking call ---------------
ProbeRunOutcomes == {"rc0", "nonzero", "FileNotFoundError", "PermissionError",
                     "KeyboardInterrupt"}
ImportOutcomes == {"ok", "ImportError", "OSError", "KeyboardInterrupt"}
ConvertRunOutcomes == {"rc0", "nonzero", "FileNotFoundError", "KeyboardInterrupt"}
WeasyOutcomes == {"ok", "ImportError", "RenderError", "KeyboardInterrupt"}
BrowserOutcomes == {"True", "False", "Error", "KeyboardInterrupt"}
WriteOutcomes == {"ok", "OpenError", "WriteError", "KeyboardInterrupt"}
InputSignals == {"EOFError", "KeyboardInterrupt"}

\* exceptions that `except Exception` catches (KeyboardInterrupt is not one)
IsException(e) == e \in {"FileNotFoundError", "PermissionError", "ImportError",
                         "OSError", "RenderError", "Error", "EOFError",
                         "ValueError", "IndexError"}

Scripts == {"converter", "opener"}
InitialTexFiles == {NoFile, [exists |-> TRUE, content |-> <<OldContent>>]}

\* ---- start of a run ------------------------------------------------------
FreshRun(s, h) ==
    /\ script' = s
    /\ htmlExists' = h
    /\ pc' = "start"
    /\ available' = EmptyDict
    /\ options' = <<>>
    /\ menu' = <<>>
    /\ promptKind' = "none"
    /\ line' = <<>>
    /\ inputSignal' = "none"
    /\ prompts' = 0
    /\ out' = <<>>
    /\ calls' = <<>>
    /\ uncaught' = "none"
    /\ exitCode' = -1
    /\ browserResult' = "none"

Init ==
    /\ script \in Scripts
    /\ htmlExists \in BOOLEAN
    /\ run = 1
    /\ pc = "start"
    /\ available = EmptyDict
    /\ options = <<>>
    /\ menu = <<>>
    /\ promptKind = "none"
    /\ line = <<>>
    /\ inputSignal = "none"
    /\ prompts = 0
    /\ out = <<>>
    /\ calls = <<>>
    /\ uncaught = "none"
    /\ exitCode = -1
    /\ browserResult = "none"
    /\ texFile \in InitialTexFiles
    /\ texAtStart = texFile

\* the script is started again; only the disk is kept
Restart ==
    /\ pc = "done"
    /\ run < MaxRuns
    /\ run' = run + 1
    /\ \E s \in Scripts, h \in BOOLEAN : FreshRun(s, h)
    /\ texAtStart' = texFile
    /\ UNCHANGED texFile

\* ---- html_to_pdf_converter.main: exception handlers ----------------------
\* variant: the ValueError handler is missing
MainHandler_NoValueError(e, inTry, o) ==
    IF inTry /\ e = "KeyboardInterrupt"
    THEN [out |-> Append(o, MsgCancelled), uncaught |-> "none"]
    ELSE [out |-> o, uncaught |-> e]

\* An exception e raised at a point of main: inside the try block of the menu
\* (inTry) ValueError and KeyboardInterrupt are handled, everything else, and
\* everything raised outside the try block, leaves main.
MainHandler(e, inTry, o) ==
    IF inTry /\ e = "ValueError"
    THEN [out |-> Append(o, MsgInvalidInput), uncaught |-> "none"]
    ELSE IF inTry /\ e = "KeyboardInterrupt"
    THEN [out |-> Append(o, MsgCancelled), uncaught |-> "none"]
    ELSE [out |-> o, uncaught |-> e]

\* main ends by the exception e (handled or not)
EndByException(e, inTry, o) ==
    /\ out' = MainHandler(e, inTry, o).out
    /\ uncaught' = MainHandler(e, inTry, o).uncaught
    /\ pc' = "done"

\* variant: the `return` after the error message is missing
CheckInput_NoReturn ==
    /\ script = "converter"
    /\ pc = "start"
    /\ out' = IF ~htmlExists THEN out \o <<MsgBanner, MsgNotFound>>
              ELSE Append(out, MsgBanner)
    /\ pc' = "probe_wkhtmltopdf"
    /\ UNCHANGED <<script, run, htmlExists, available, options, menu, promptKind,
                   line, inputSignal, prompts, calls, uncaught, exitCode,
                   browserResult, texFile, texAtStart>>

\* ---- html_to_pdf_converter.main: the input file check --------------------
CheckInput ==
    /\ script = "converter"
    /\ pc = "start"
    /\ IF ~htmlExists
       THEN /\ out' = out \o <<MsgBanner, MsgNotFound>>
            /\ pc' = "done"
       ELSE /\ out' = Append(out, MsgBanner)
            /\ pc' = "probe_wkhtmltopdf"
    /\ UNCHANGED <<script, run, htmlExists, available, options, menu, promptKind,
                   line, inputSignal, prompts, calls, uncaught, exitCode, browserResult,
                   texFile, texAtStart>>

\* ---- check_dependencies ---------------------------------------------------
\* subprocess.run(['wkhtmltopdf', '--version'])
ProbeWkhtmltopdf ==
    /\ script = "converter"
    /\ pc = "probe_wkhtmltopdf"
    /\ calls' = Append(calls, "probe_wkhtmltopdf")
    /\ \E r \in ProbeRunOutcomes :
         CASE r = "rc0" ->
                /\ available' = DictSet(available, "wkhtmltopdf", TRUE)
                /\ out' = Append(out, MsgWkOk)
                /\ pc' = "probe_weasyprint"
                /\ UNCHANGED uncaught
           [] r = "nonzero" ->
                /\ available' = DictSet(available, "wkhtmltopdf", FALSE)
                /\ pc' = "probe_weasyprint"
                /\ UNCHANGED <<out, uncaught>>
           [] r = "FileNotFoundError" ->
                /\ available' = DictSet(available, "wkhtmltopdf", FALSE)
                /\ out' = Append(out, MsgWkMissing)
                /\ pc' = "probe_weasyprint"
                /\ UNCHANGED uncaught
           [] OTHER ->
                /\ EndByException(r, FALSE, out)
                /\ UNCHANGED available
    /\ UNCHANGED <<script, run, htmlExists, options, menu, promptKind, line, inputSignal,
                   prompts, exitCode, browserResult, texFile, texAtStart>>

\* import weasyprint
ProbeWeasyprint ==
    /\ script = "converter"
    /\ pc = "probe_weasyprint"
    /\ calls' = Append(calls, "probe_weasyprint")
    /\ \E r \in ImportOutcomes :
         CASE r = "ok" ->
                /\ available' = DictSet(available, "weasyprint", TRUE)
                /\ out' = Append(out, MsgWeasyOk)
                /\ pc' = "probed"
                /\ UNCHANGED uncaught
           [] r = "ImportError" ->
                /\ available' = DictSet(available, "weasyprint", FALSE)
                /\ out' = Append(out, MsgWeasyMissing)
                /\ pc' = "probed"
                /\ UNCHANGED uncaught
           [] OTHER ->
                /\ EndByException(r, FALSE, out)
                /\ UNCHANGED available
    /\ UNCHANGED <<script, run, htmlExists, options, menu, promptKind, line, inputSignal,
                   prompts, exitCode, browserResult, texFile, texAtStart>>

\* ---- html_to_pdf_converter.main: after the probe --------------------------
OptWkhtmltopdf == <<"wkhtmltopdf", "Convert using wkhtmltopdf (recommended)">>
OptWeasyprint == <<"weasyprint", "Convert using WeasyPrint">>
OptBrowser == <<"browser", "Open in browser (manual PDF printing)">>
OptLatex == <<"latex", "Create LaTeX template">>

\* the list `options` built from the probe's result
BuildOptions(deps) ==
    (IF DictGet(deps, "wkhtmltopdf") THEN <<OptWkhtmltopdf>> ELSE <<>>)
    \o (IF DictGet(deps, "weasyprint") THEN <<OptWeasyprint>> ELSE <<>>)
    \o <<OptBrowser, OptLatex>>

\* for i, (method, description) in enumerate(options, 1): print(i, description)
PrintMenu(opts) == [i \in 1..Len(opts) |-> <<i, opts[i][2]>>]

\* variant: the no-tool branch is missing, the menu is always shown
Decide_AlwaysMenu ==
    /\ script = "converter"
    /\ pc = "probed"
    /\ options' = BuildOptions(available)
    /\ menu' = PrintMenu(BuildOptions(available))
    /\ out' = Append(out, MsgMenuHeader)
    /\ pc' = "menu_prompt"
    /\ UNCHANGED <<script, run, htmlExists, available, promptKind, line,
                   inputSignal, prompts, calls, uncaught, exitCode,
                   browserResult, texFile, texAtStart>>

\* `if not any(deps.values())`: the no-tool branch, or the menu is printed
Decide ==
    /\ script = "converter"
    /\ pc = "probed"
    /\ IF ~AnyValue(available)
       THEN /\ out' = out \o <<MsgNoTools, MsgInstall, MsgAlternative>>
            /\ pc' = "yn_prompt"
            /\ UNCHANGED <<options, menu>>
       ELSE /\ options' = BuildOptions(available)
            /\ menu' = PrintMenu(BuildOptions(available))
            /\ out' = Append(out, MsgMenuHeader)
            /\ pc' = "menu_prompt"
    /\ UNCHANGED <<script, run, htmlExists, available, promptKind, line, inputSignal, prompts,
                   calls, uncaught, exitCode, browserResult, texFile, texAtStart>>

\* ---- the functions main dispatches to ------------------------------------
\* each takes the outcome r of its external call and the output so far, and
\* gives the output after it and the exception it lets escape ("none" if it
\* returned)
convert_to_pdf_wkhtmltopdf(r, o) ==
    CASE r = "rc0" -> [out |-> o \o <<MsgConverting, MsgConverted>>, raised |-> "none"]
      [] r = "nonzero" -> [out |-> o \o <<MsgConverting, MsgConvertStderr>>, raised |-> "none"]
      [] IsException(r) -> [out |-> o \o <<MsgConverting, MsgConvertError>>, raised |-> "none"]
      [] OTHER -> [out |-> Append(o, MsgConverting), raised |-> r]

convert_to_pdf_weasyprint(r, o) ==
    CASE r = "ok" -> [out |-> o \o <<MsgConverting, MsgWeasyWarning, MsgConverted>>,
                      raised |-> "none"]
      [] r = "ImportError" -> [out |-> Append(o, MsgConvertError), raised |-> "none"]
      [] IsException(r) -> [out |-> o \o <<MsgConverting, MsgWeasyWarning, MsgConvertError>>,
                            raised |-> "none"]
      [] OTHER -> [out |-> o \o <<MsgConverting, MsgWeasyWarning>>, raised |-> r]

\* the value webbrowser.open returns is not looked at
open_in_browser(r, o) ==
    CASE r \in {"True", "False"} -> [out |-> Append(o, MsgOpened), raised |-> "none"]
      [] IsException(r) -> [out |-> Append(o, MsgBrowserError), raised |-> "none"]
      [] OTHER -> [out |-> o, raised |-> r]

\* variant: the file is opened in mode 'a'
OpenForWrite_Append(f) == [exists |-> TRUE, content |-> f.content]

\* open('math_guide.tex', 'w'): the file exists and is empty
OpenForWrite(f) == [exists |-> TRUE, content |-> <<>>]

\* f.write(text)
WriteText(f, text) == [f EXCEPT !.content = Append(@, text)]

\* no try block: a failing open or write escapes
create_latex_version(r, o, f) ==
    CASE r = "ok" -> [out |-> Append(o, MsgLatexCreated), raised |-> "none",
                      file |-> WriteText(OpenForWrite(f), latex_content)]
      [] r = "OpenError" -> [out |-> o, raised |-> "OSError", file |-> f]
      [] r = "WriteError" -> [out |-> o, raised |-> "OSError", file |-> OpenForWrite(f)]
      [] OTHER -> [out |-> o, raised |-> r, file |-> OpenForWrite(f)]

\* variant: the menu is shown again after the dispatched function returned
AfterCall_Reprompt(f, inTry) ==
    IF f.raised = "none"
    THEN /\ out' = f.out
         /\ pc' = IF inTry THEN "menu_prompt" ELSE "done"
         /\ UNCHANGED uncaught
    ELSE EndByException(f.raised, inTry, f.out)

\* main after a dispatched function f (a record with out and raised): it
\* returns, or the escaping exception meets main's handlers
AfterCall(f, inTry) ==
    IF f.raised = "none"
    THEN /\ out' = f.out
         /\ pc' = "done"
         /\ UNCHANGED uncaught
    ELSE EndByException(f.raised, inTry, f.out)

\* ---- the no-tool branch: the yes/no prompt (outside any try block) --------
YnPrompt ==
    /\ script = "converter"
    /\ pc = "yn_prompt"
    /\ prompts' = prompts + 1
    /\ promptKind' = "yn"
    /\ \/ \E l \in YnLines :
            /\ line' = l
            /\ pc' = IF Lower(l) \in {<<"y">>, <<"y","e","s">>}
                     THEN "fallback_browser" ELSE "done"
            /\ UNCHANGED <<out, uncaught, inputSignal>>
       \/ \E e \in InputSignals :
            /\ inputSignal' = e
            /\ EndByException(e, FALSE, out)
            /\ UNCHANGED line
    /\ UNCHANGED <<script, run, htmlExists, available, options, menu, calls,
                   exitCode, browserResult, texFile, texAtStart>>

FallbackBrowser ==
    /\ script = "converter"
    /\ pc = "fallback_browser"
    /\ calls' = Append(calls, "browser")
    /\ \E r \in BrowserOutcomes :
         /\ browserResult' = r
         /\ AfterCall(open_in_browser(r, out), FALSE)
    /\ UNCHANGED <<script, run, htmlExists, available, options, menu, promptKind,
                   line, inputSignal, prompts, exitCode, texFile, texAtStart>>

\* ---- the menu: input, int(), range check, dispatch (inside the try) -------
\* variant: the lower bound of the range check is missing
ValidChoice_NoLowerBound(choice, n) == choice <= n

ValidChoice(choice, n) == 1 <= choice /\ choice <= n

\* variant: the index is not shifted to zero-based
ChosenMethod_OffByOne(opts, choice) == PyIndex(opts, choice)

\* method, _ = options[choice - 1]
ChosenMethod(opts, choice) == PyIndex(opts, choice - 1)

MenuPrompt ==
    /\ script = "converter"
    /\ pc = "menu_prompt"
    /\ prompts' = prompts + 1
    /\ promptKind' = "menu"
    /\ \/ \E l \in MenuLines :
            /\ line' = l
            /\ UNCHANGED inputSignal
            /\ IF ~ParseInt(l).ok
               THEN EndByException("ValueError", TRUE, out)
               ELSE IF ~ValidChoice(ParseInt(l).val, Len(options))
               THEN /\ out' = Append(out, MsgInvalidChoice)
                    /\ pc' = "done"
                    /\ UNCHANGED uncaught
               ELSE IF ~ChosenMethod(options, ParseInt(l).val).ok
               THEN EndByException("IndexError", TRUE, out)
               ELSE /\ pc' = ChosenMethod(options, ParseInt(l).val).val[1]
                    /\ UNCHANGED <<out, uncaught>>
       \/ \E e \in InputSignals :
            /\ inputSignal' = e
            /\ EndByException(e, TRUE, out)
            /\ UNCHANGED line
    /\ UNCHANGED <<script, run, htmlExists, available, options, menu, calls,
                   exitCode, browserResult, texFile, texAtStart>>

ConvertWkhtmltopdf ==
    /\ script = "converter"
    /\ pc = "wkhtmltopdf"
    /\ calls' = Append(calls, "convert_wkhtmltopdf")
    /\ \E r \in ConvertRunOutcomes :
         AfterCall(convert_to_pdf_wkhtmltopdf(r, out), TRUE)
    /\ UNCHANGED <<script, run, htmlExists, available, options, menu, promptKind,
                   line, inputSignal, prompts, exitCode, browserResult, texFile, texAtStart>>

ConvertWeasyprint ==
    /\ script = "converter"
    /\ pc = "weasyprint"
    /\ calls' = Append(calls, "convert_weasyprint")
    /\ \E r \in WeasyOutcomes :
         AfterCall(convert_to_pdf_weasyprint(r, out), TRUE)
    /\ UNCHANGED <<script, run, htmlExists, available, options, menu, promptKind,
                   line, inputSignal, prompts, exitCode, browserResult, texFile, texAtStart>>

MenuBrowser ==
    /\ script = "converter"
    /\ pc = "browser"
    /\ calls' = Append(calls, "browser")
    /\ \E r \in BrowserOutcomes :
         /\ browserResult' = r
         /\ AfterCall(open_in_browser(r, out), TRUE)
    /\ UNCHANGED <<script, run, htmlExists, available, options, menu, promptKind,
                   line, inputSignal, prompts, exitCode, texFile, texAtStart>>

CreateLatex ==
    /\ script = "converter"
    /\ pc = "latex"
    /\ calls' = Append(calls, "write_tex")
    /\ \E r \in WriteOutcomes :
         /\ texFile' = create_latex_version(r, out, texFile).file
         /\ AfterCall(create_latex_version(r, out, texFile), TRUE)
    /\ UNCHANGED <<script, run, htmlExists, available, options, menu, promptKind,
                   line, inputSignal, prompts, exitCode, browserResult, texAtStart>>

\* ---- open_guide.main -------------------------------------------------------
OpenerCheck ==
    /\ script = "opener"
    /\ pc = "start"
    /\ IF ~htmlExists
       THEN /\ out' = Append(out, MsgNotFound)
            /\ exitCode' = 1
            /\ pc' = "done"
       ELSE /\ pc' = "open_url"
            /\ UNCHANGED <<out, exitCode>>
    /\ UNCHANGED <<script, run, htmlExists, available, options, menu, promptKind,
                   line, inputSignal, prompts, calls, uncaught, browserResult, texFile,
                   texAtStart>>

\* the try block: webbrowser.open(file_url), its value not looked at
OpenerOpen ==
    /\ script = "opener"
    /\ pc = "open_url"
    /\ calls' = Append(calls, "browser")
    /\ pc' = "done"
    /\ \E r \in BrowserOutcomes :
         /\ browserResult' = r
         /\ CASE r \in {"True", "False"} ->
                   /\ out' = out \o <<MsgGuideOpening, MsgGuideOpened>>
                   /\ exitCode' = 0
                   /\ UNCHANGED uncaught
              [] IsException(r) ->
                   /\ out' = out \o <<MsgGuideOpening, MsgBrowserError>>
                   /\ exitCode' = 1
                   /\ UNCHANGED uncaught
              [] OTHER ->
                   /\ out' = Append(out, MsgGuideOpening)
                   /\ uncaught' = r
                   /\ UNCHANGED exitCode
    /\ UNCHANGED <<script, run, htmlExists, available, options, menu, promptKind,
                   line, inputSignal, prompts, texFile, texAtStart>>

\* ---- the system -------------------------------------------------------------
Next ==
    \/ CheckInput
    \/ ProbeWkhtmltopdf
    \/ ProbeWeasyprint
    \/ Decide
    \/ YnPrompt
    \/ FallbackBrowser
    \/ MenuPrompt
    \/ ConvertWkhtmltopdf
    \/ ConvertWeasyprint
    \/ MenuBrowser
    \/ CreateLatex
    \/ OpenerCheck
    \/ OpenerOpen
    \/ Restart

Spec == Init /\ [][Next]_vars

\* ---- what the properties talk about ------------------------------------------
Probes == {"probe_wkhtmltopdf", "probe_weasyprint"}
IsAction(c) == c \notin Probes
ActionCalls == SelectSeq(calls, IsAction)
Printed(m) == \E i \in 1..Len(out) : out[i] = m
LastPrinted == IF out = <<>> THEN "" ELSE out[Len(out)]
Tools == {"wkhtmltopdf", "weasyprint"}
Detected == {t \in DOMAIN available : available[t]}
MenuLineRead == script = "converter" /\ promptKind = "menu" /\ inputSignal = "none"
Choice == ParseInt(line)
MethodShown(desc) ==
    CASE desc = OptWkhtmltopdf[2] -> "wkhtmltopdf"
      [] desc = OptWeasyprint[2] -> "weasyprint"
      [] desc = OptBrowser[2] -> "browser"
      [] desc = OptLatex[2] -> "latex"
      [] OTHER -> "unknown"
CallOfMethod(m) ==
    CASE m = "wkhtmltopdf" -> "convert_wkhtmltopdf"
      [] m = "weasyprint" -> "convert_weasyprint"
      [] m = "browser" -> "browser"
      [] m = "latex" -> "write_tex"
      [] OTHER -> "unknown"
NoToolFound ==
    /\ script = "converter"
    /\ DOMAIN available = Tools
    /\ Detected = {}
    /\ pc # "probed"

\* C1: converter, input file absent: the error is printed and nothing else
\* happens: no probe, no prompt, no conversion or browser call, no file written,
\* and main returns.
C1_AbsentInputNoAction ==
    (script = "converter" /\ ~htmlExists) =>
        /\ pc \in {"start", "done"}
        /\ calls = <<>>
        /\ prompts = 0
        /\ texFile = texAtStart
        /\ uncaught = "none"
        /\ (pc = "done" => out = <<MsgBanner, MsgNotFound>>)

C1_Witness == script = "converter" /\ ~htmlExists /\ pc = "done"

\* C2: opener: exit code 1 without any open when the file is absent, 1 whenever
\* the browser open fails (raising or reporting failure), 0 only when the file
\* exists and the open succeeded.
C2_ExitCode ==
    (script = "opener" /\ pc = "done" /\ uncaught = "none") =>
        /\ exitCode \in {0, 1}
        /\ (~htmlExists => calls = <<>> /\ exitCode = 1)
        /\ (exitCode = 0 <=> (htmlExists /\ browserResult = "True"))

\* C3 (as stated): with no tool detected, at the prompt both the browser
\* fallback and the template fallback can be chosen by some input, and the
\* missing-tools message was printed.
C3_BothFallbacksOffered ==
    NoToolFound =>
        /\ Printed(MsgNoTools)
        /\ (pc = "yn_prompt" =>
               /\ ENABLED (YnPrompt /\ pc' = "fallback_browser")
               /\ ENABLED (YnPrompt /\ pc' = "latex"))

\* C3 (amended): with no tool detected the missing-tools message is printed and
\* only the browser fallback is offered, by the yes/no prompt; no menu is shown
\* and the template is never written in that run.
C3_BrowserFallbackOnly ==
    NoToolFound =>
        /\ Printed(MsgNoTools)
        /\ menu = <<>>
        /\ promptKind \in {"none", "yn"}
        /\ \A i \in 1..Len(calls) : calls[i] \in Probes \cup {"browser"}
        /\ texFile = texAtStart
        /\ (pc = "yn_prompt" =>
               /\ ENABLED (YnPrompt /\ pc' = "fallback_browser")
               /\ ~ENABLED (YnPrompt /\ pc' = "latex"))

C3_Witness ==
    NoToolFound /\ pc = "done" /\ ActionCalls = <<"browser">> /\ Printed(MsgOpened)

\* C4: menu, integer choice outside 1..N: "Invalid choice!" is printed and no
\* conversion, browser open or template write happens.
C4_OutOfRangeChoice ==
    (MenuLineRead /\ Choice.ok /\ Choice.val \notin 1..Len(menu)) =>
        /\ pc = "done"
        /\ LastPrinted = MsgInvalidChoice
        /\ ActionCalls = <<>>
        /\ texFile = texAtStart
        /\ uncaught = "none"

C4_Witness ==
    MenuLineRead /\ Choice.ok /\ Choice.val <= 0 /\ pc = "done"

\* C5: menu, non-numeric line (the empty line included): "Invalid input!" is
\* printed, main returns with no exception, nothing is invoked.
C5_NonNumericInput ==
    (MenuLineRead /\ ~Choice.ok) =>
        /\ pc = "done"
        /\ LastPrinted = MsgInvalidInput
        /\ ActionCalls = <<>>
        /\ texFile = texAtStart
        /\ uncaught = "none"

C5_Witness == MenuLineRead /\ line = <<>> /\ pc = "done"

\* C6: once the template was emitted, math_guide.tex holds exactly the fixed
\* content, whatever it held before, whichever tools were detected and
\* whichever menu position was chosen; the file changes by nothing else.
C6_TemplateFixed ==
    /\ (script = "converter" /\ Printed(MsgLatexCreated)) => texFile = LatexFile
    /\ (texFile # texAtStart) =>
           (script = "converter" /\ calls # <<>> /\ calls[Len(calls)] = "write_tex")

C6_Witness ==
    /\ run = 2
    /\ texAtStart = LatexFile
    /\ Printed(MsgLatexCreated)
    /\ Len(menu) = 3

\* C7: a KeyboardInterrupt never leaves the converter's main.
C7_InterruptCaught ==
    script = "converter" => uncaught # "KeyboardInterrupt"

\* C8: every failure is reported by a message and no exception of a failing
\* operation leaves the converter's main; the probe prints an availability
\* line for each tool it decided on.
C8_FailuresLocal ==
    script = "converter" =>
        /\ uncaught \in {"none", "KeyboardInterrupt", "EOFError"}
        /\ ("wkhtmltopdf" \in DOMAIN available =>
               Printed(MsgWkOk) \/ Printed(MsgWkMissing))
        /\ ("weasyprint" \in DOMAIN available =>
               Printed(MsgWeasyOk) \/ Printed(MsgWeasyMissing))

\* C9: the menu numbers its lines 1..N, N = 2 + number of detected tools, the
\* browser and template lines last; a valid choice k runs the k-th line shown
\* and nothing else; a conversion tool runs only if the probe found it.
C9_DispatchMatchesMenu ==
    script = "converter" =>
        /\ \A i \in 1..Len(menu) : menu[i][1] = i
        /\ (pc \in {"menu_prompt", "wkhtmltopdf", "weasyprint", "browser", "latex"}
              \/ promptKind = "menu") =>
               /\ Len(menu) = 2 + Cardinality(Detected)
               /\ menu[Len(menu) - 1][2] = OptBrowser[2]
               /\ menu[Len(menu)][2] = OptLatex[2]
        /\ (MenuLineRead /\ Choice.ok /\ Choice.val \in 1..Len(menu)) =>
               LET shown == MethodShown(menu[Choice.val][2])
               IN  /\ pc \in {shown, "done"}
                   /\ pc = shown => ActionCalls = <<>>
                   /\ pc = "done" => ActionCalls = <<CallOfMethod(shown)>>
        /\ \A i \in 1..Len(calls) :
               /\ calls[i] = "convert_wkhtmltopdf" => "wkhtmltopdf" \in Detected
               /\ calls[i] = "convert_weasyprint" => "weasyprint" \in Detected

C9_Witness ==
    /\ MenuLineRead
    /\ Detected = {"weasyprint"}
    /\ Choice.val = 1
    /\ pc = "done"
    /\ ActionCalls = <<"convert_weasyprint">>

\* C10: in one run of the converter at most one action is invoked, once, at most
\* one prompt is read, each probe runs at most once, and after the action the
\* run is over whatever the action's outcome.
C10_NoRetry ==
    script = "converter" =>
        /\ Len(ActionCalls) <= 1
        /\ prompts <= 1
        /\ Len(calls) - Len(ActionCalls) <= 2
        /\ \A i, j \in 1..Len(calls) : (calls[i] = calls[j]) => i = j
        /\ (ActionCalls # <<>> => pc = "done" /\ prompts = 1)

C10_Witness ==
    /\ script = "converter"
    /\ pc = "done"
    /\ ActionCalls = <<"convert_wkhtmltopdf">>
    /\ LastPrinted = MsgConvertStderr
    /\ prompts = 1

====
